---- MODULE Spec2Model ----
(***************************************************************************)
(* Ledger routes of the Transaction-Management-System                      *)
(* (src/routes/accounts.js): deposit, withdraw, transfer, balance,         *)
(* transaction history and account listing, run as concurrent express      *)
(* handlers against one mongoose store.  Every handler is cut at its       *)
(* awaits: each store call is one atomic step, the synchronous code that   *)
(* follows it belongs to the same step.                                    *)
(***************************************************************************)
EXTENDS Integers, Sequences, FiniteSets

\* ------------------------------------------------------------------ bounds
MaxRequests == 2     \* requests served in one behaviour
MaxInitBalance == 2  \* largest balance an account holds in the first state
MaxAmount == 2       \* largest JSON number sent as amount

\* ------------------------------------------------------------ the entities
Users == {"u1", "u2"}
Accounts == {"a1", "a2"}                 \* the Account documents of the store
Owner == [a \in Accounts |-> IF a = "a1" THEN "u1" ELSE "u2"]
MissingId == "a3"                        \* a well-formed ObjectId of no document
MalformedId == "zz"                      \* a string that is no ObjectId
PathIds == Accounts \cup {MissingId, MalformedId}
BodyIds == PathIds \cup {""}
\* Two requests are served at a time: the slots of the handlers in flight.
Procs == {1, 2}

\* ------------------------------------------------- JavaScript values, strings
\* A JSON value of the request body: a number or a string (a sequence of
\* characters).
Num(n) == [t |-> "num", v |-> n, s |-> <<>>]
Str(cs) == [t |-> "str", v |-> 0, s |-> cs]

DigitChars == <<"0", "1", "2", "3", "4", "5", "6", "7", "8", "9">>
IsDigit(c) == \E i \in 1..10 : DigitChars[i] = c
DigitVal(c) == (CHOOSE i \in 1..10 : DigitChars[i] = c) - 1

RECURSIVE NatToStr(_)
NatToStr(n) ==
  IF n < 10 THEN <<DigitChars[n + 1]>>
  ELSE NatToStr(n \div 10) \o <<DigitChars[(n % 10) + 1]>>

\* String(n) of an integer.
NumToStr(n) == IF n < 0 THEN <<"-">> \o NatToStr(-n) ELSE NatToStr(n)

RECURSIVE DigitsToNat(_)
DigitsToNat(cs) ==
  IF cs = <<>> THEN 0
  ELSE DigitsToNat(SubSeq(cs, 1, Len(cs) - 1)) * 10 + DigitVal(cs[Len(cs)])

HasSign(cs) == Len(cs) > 0 /\ cs[1] \in {"+", "-"}
Unsigned(cs) == IF HasSign(cs) THEN Tail(cs) ELSE cs
\* An optional sign and at least one digit: what Number(), validator's
\* isNumeric and isFloat all accept over the characters of the model.
IsSignedDigits(cs) ==
  /\ Len(Unsigned(cs)) > 0
  /\ \A i \in 1..Len(Unsigned(cs)) : IsDigit(Unsigned(cs)[i])
StrToNum(cs) ==
  IF cs[1] = "-" THEN 0 - DigitsToNat(Unsigned(cs)) ELSE DigitsToNat(Unsigned(cs))

\* express-validator hands the validators the value as a string.
JsToString(x) == IF x.t = "num" THEN NumToStr(x.v) ELSE x.s
\* ToNumber of a value that is numeric.
ToNumber(x) == IF x.t = "num" THEN x.v ELSE StrToNum(x.s)

\* ------------------------------------------------------------ the requests
\* The amounts a client sends: JSON numbers -1..MaxAmount and JSON strings.
AmountStrings == {<<"1">>, <<"+", "1">>, <<"x">>}
Amounts == {Num(n) : n \in -1..MaxAmount} \cup {Str(cs) : cs \in AmountStrings}
\* The query of the history route: type ("" when absent) and the two dates,
\* as the instant they parse to (a Transaction's createdAt is its position in
\* the collection), NoDate when absent and BadDate when not ISO 8601.
NoDate == 0
BadDate == -1
QueryTypes == {"", "deposit", "transfer"}
QueryDates == {BadDate, NoDate, 1, 2}
Ops == {"deposit", "withdraw", "transfer", "balance", "transactions"}

NoRequest ==
  [op |-> "none", userId |-> "u1", accountId |-> "a1",
   receiverAccountId |-> "", amount |-> Num(0),
   type |-> "", startDate |-> NoDate, endDate |-> NoDate]
\* A mongoose document held by a handler: found is FALSE for findOne's null,
\* invalid is TRUE once a set of balance failed to cast.
NoDoc == [found |-> FALSE, id |-> "", userId |-> "", balance |-> 0, invalid |-> FALSE]
NoResponse == [op |-> "none", fn |-> "none", message |-> "", body |-> <<>>, solo |-> FALSE]
NoSnapshot == [a \in Accounts |-> 0]

\* The users routes' requests.  An email is its local part and its domain; the
\* domain "" stands for a string isEmail() rejects.  A password is its
\* characters.  A username is the local part followed by a suffix (<<>> is
\* the empty string).
Locals == {"a", "b"}
Domains == {"x", "y"}
Emails == {[local |-> l, domain |-> d] : l \in Locals, d \in Domains \cup {""}}
Passwords ==
  {<<"s", "e", "c", "r", "e", "t">>, <<"s", "e", "c", "r", "e", "u">>,
   <<"p", "w">>, <<>>}
\* Math.floor(100 + Math.random() * 900): two of the values 100..999.
Suffixes == {100, 999}
\* The salts bcrypt.hash may draw.
Salts == {"s1", "s2"}
LoginNames == {<<l, n>> : l \in Locals, n \in Suffixes} \cup {<<>>}
UserOps == {"register", "login"}
NoEmail == [local |-> "", domain |-> ""]
NoHash == [salt |-> "", digest |-> <<>>]
NoUserRequest ==
  [op |-> "none", email |-> NoEmail, username |-> <<>>, password |-> <<>>]
\* A User document held by a handler: found is FALSE for findOne's null.
NoUser ==
  [found |-> FALSE, id |-> 0, username |-> <<>>, email |-> NoEmail,
   hashedPassword |-> NoHash]
NoUserResponse == [op |-> "none", fn |-> "none", message |-> "", body |-> <<>>]

VARIABLES
  balance,   \* the store: balance of every Account document
  txns,      \* the store: the Transaction documents, in creation order
  req,       \* per slot: the request being served
  pc,        \* per slot: the await the handler is at
  sender,    \* per slot: the handler's account / senderAccount document
  receiver,  \* per slot: the handler's receiverAccount document
  res,       \* the response sent last
  started,   \* requests accepted so far
  pre,       \* per slot: the stored balances when the request arrived
  txn0,      \* per slot: the number of Transaction documents at that time
  solo,      \* per slot: no other request was served since this one arrived
  opening    \* the balances the behaviour started with
\* The users routes (register, login) and the User collection.
VARIABLES
  users,     \* the store: the User documents, in creation order
  upc,       \* per slot: the await the register / login handler is at
  ureq,      \* per slot: the register / login request being served
  uuser,     \* per slot: the handler's newUser / user document
  ures,      \* the response the users routes sent last
  tokens     \* the tokens jwt.sign has issued, in order
userVars == <<users, upc, ureq, uuser, ures, tokens>>
vars ==
  <<balance, txns, req, pc, sender, receiver, res, started, pre, txn0, solo, opening,
    userVars>>

\* ----------------------------------------------------- validation chains
\* isMongoId() on the path parameter.
IsMongoId(id) == id \in Accounts \cup {MissingId}
\* body('amount').isNumeric().isFloat({ gt: 0 }): both run on the stringified
\* value and neither converts it.
IsNumeric(x) == IsSignedDigits(JsToString(x))
IsFloatMin0(x) == IsSignedDigits(JsToString(x)) /\ StrToNum(JsToString(x)) >= 0
IsFloatGt0(x) == IsSignedDigits(JsToString(x)) /\ StrToNum(JsToString(x)) > 0
AmountPasses(x) == IsNumeric(x) /\ IsFloatGt0(x)
\* body('receiverAccountId').isString().notEmpty()
ReceiverIdPasses(id) == id # ""

\* query('startDate').optional().isISO8601()
DatePasses(d) == d # BadDate

\* validationResult(req).isEmpty(): the chain of each route.
ValidationPasses(r) ==
  /\ IsMongoId(r.accountId)
  /\ (r.op \in {"deposit", "withdraw", "transfer"} => AmountPasses(r.amount))
  /\ (r.op = "transfer" => ReceiverIdPasses(r.receiverAccountId))
  /\ (r.op = "transactions" => DatePasses(r.startDate) /\ DatePasses(r.endDate))

\* ------------------------------------------------------- the store's calls
\* Account.findOne({ _id: id, userId }).
FindOwned(id, userId) ==
  IF id \in Accounts /\ Owner[id] = userId
  THEN [found |-> TRUE, id |-> id, userId |-> Owner[id],
        balance |-> balance[id], invalid |-> FALSE]
  ELSE NoDoc
\* Account.findOne({ _id: id }).
FindById(id) ==
  IF id \in Accounts
  THEN [found |-> TRUE, id |-> id, userId |-> Owner[id],
        balance |-> balance[id], invalid |-> FALSE]
  ELSE NoDoc

\* doc.balance += amount: JavaScript's + adds two numbers and concatenates
\* when the amount is a string; the schema then casts the result to Number,
\* and a result that does not cast leaves the field as it was and marks the
\* document invalid.
PlusAmount(doc, amount) ==
  IF amount.t = "num" THEN [doc EXCEPT !.balance = doc.balance + amount.v]
  ELSE LET cat == NumToStr(doc.balance) \o amount.s
       IN IF IsSignedDigits(cat) THEN [doc EXCEPT !.balance = StrToNum(cat)]
          ELSE [doc EXCEPT !.invalid = TRUE]
\* doc.balance -= amount: - converts both operands to numbers.
MinusAmount(doc, amount) == [doc EXCEPT !.balance = doc.balance - ToNumber(amount)]
\* The check refusing a withdrawal of the whole balance.
InsufficientFundsOrEqual(doc, amount) == doc.balance <= ToNumber(amount)
\* The check with its comparison turned round.
InsufficientFundsReversed(doc, amount) == doc.balance > ToNumber(amount)
\* The check left out.
InsufficientFundsNever(doc, amount) == doc.balance < 0 /\ ToNumber(amount) < 0
\* doc.balance < amount: < converts the string to a number.
InsufficientFunds(doc, amount) == doc.balance < ToNumber(amount)

\* new Transaction({ userId, accountId, type, amount }): the schema casts the
\* amount to Number.
Transaction(userId, accountId, type, amount) ==
  [userId |-> userId, accountId |-> accountId, type |-> type,
   amount |-> ToNumber(amount), createdAt |-> Len(txns) + 1]

\* ------------------------------------------------------------ the responses
\* util/response: the four helpers the routes answer with.  body keeps the
\* balance of every account document sent back.
successRes(body) == [fn |-> "successRes", message |-> "", body |-> body]
clientErrorRes(m) == [fn |-> "clientErrorRes", message |-> m, body |-> <<>>]
notFoundRes(m) == [fn |-> "notFoundRes", message |-> m, body |-> <<>>]
serverErrorRes(m) == [fn |-> "serverErrorRes", message |-> m, body |-> <<>>]

Init ==
  /\ balance \in [Accounts -> 0..MaxInitBalance]
  /\ txns = <<>>
  /\ req = [p \in Procs |-> NoRequest]
  /\ pc = [p \in Procs |-> "idle"]
  /\ sender = [p \in Procs |-> NoDoc]
  /\ receiver = [p \in Procs |-> NoDoc]
  /\ res = NoResponse
  /\ started = 0
  /\ pre = [p \in Procs |-> NoSnapshot]
  /\ txn0 = [p \in Procs |-> 0]
  /\ solo = [p \in Procs |-> FALSE]
  /\ opening = balance
  /\ users = <<>>
  /\ upc = [p \in Procs |-> "idle"]
  /\ ureq = [p \in Procs |-> NoUserRequest]
  /\ uuser = [p \in Procs |-> NoUser]
  /\ ures = NoUserResponse
  /\ tokens = <<>>

\* ------------------------------------------------------------ the handlers
\* The handler goes on to its next await.
Continue(p, label) ==
  /\ pc' = [pc EXCEPT ![p] = label]
  /\ UNCHANGED <<req, res, started, pre, txn0, solo, opening, userVars>>

\* The handler answers and returns: its locals are gone, the slot is free.
Finish(p, response) ==
  /\ pc' = [pc EXCEPT ![p] = "idle"]
  /\ res' = [op |-> req[p].op, fn |-> response.fn, message |-> response.message,
             body |-> response.body, solo |-> solo[p]]
  /\ req' = [req EXCEPT ![p] = NoRequest]
  /\ sender' = [sender EXCEPT ![p] = NoDoc]
  /\ receiver' = [receiver EXCEPT ![p] = NoDoc]
  /\ pre' = [pre EXCEPT ![p] = NoSnapshot]
  /\ txn0' = [txn0 EXCEPT ![p] = 0]
  /\ solo' = [solo EXCEPT ![p] = FALSE]
  /\ UNCHANGED <<started, opening, userVars>>

\* A request arrives (authenticateToken has resolved userId) and takes the
\* first free slot.  Nothing of the store is touched before the handler's
\* first findOne, so arrival, validation and that findOne (with the
\* synchronous code after it) are one step.  What the handler does in it is
\* either an answer or the documents it goes on with to its next await.
Answer(response) ==
  [answered |-> TRUE, response |-> response, label |-> "idle",
   sender |-> NoDoc, receiver |-> NoDoc]
GoOn(label, s, t) ==
  [answered |-> FALSE, response |-> [fn |-> "none", message |-> "", body |-> <<>>],
   label |-> label, sender |-> s, receiver |-> t]

\* Deposit, lines 105-126: validation, findOne, the not-found return,
\* balance += amount.
DepositBegin(r) ==
  IF ~ValidationPasses(r) THEN Answer(clientErrorRes("validation"))
  ELSE LET account == FindOwned(r.accountId, r.userId)
       IN IF ~account.found
          THEN Answer(notFoundRes("Account not found"))
          ELSE GoOn("save", PlusAmount(account, r.amount), NoDoc)

\* Withdraw, lines 176-201: validation, findOne, not found, insufficient
\* funds, balance -= amount.
WithdrawBegin(r) ==
  IF ~ValidationPasses(r) THEN Answer(clientErrorRes("validation"))
  ELSE LET account == FindOwned(r.accountId, r.userId)
       IN IF ~account.found
          THEN Answer(notFoundRes("Account not found"))
          ELSE IF InsufficientFunds(account, r.amount)
          THEN Answer(clientErrorRes("Insufficient funds"))
          ELSE GoOn("save", MinusAmount(account, r.amount), NoDoc)

\* Transfer, lines 253-281: validation, the sender's findOne and the checks.
\* No route creates or deletes an account, so whether the receiver's findOne
\* (line 269) throws on a malformed _id or yields null is known from the
\* request alone; only the receiver's balance is read later, by
\* TransferFindReceiver.  The checks run in the order of the code: the cast
\* of the receiver's _id (the throw at line 269), sender, receiver, funds.
TransferBegin(r) ==
  IF ~ValidationPasses(r) THEN Answer(clientErrorRes("validation"))
  ELSE LET senderAccount == FindOwned(r.accountId, r.userId)
       IN IF ~IsMongoId(r.receiverAccountId)
          THEN Answer(serverErrorRes("Internal server error"))
          ELSE IF ~senderAccount.found
          THEN Answer(notFoundRes("Sender account not found"))
          ELSE IF ~FindById(r.receiverAccountId).found
          THEN Answer(notFoundRes("Receiver account not found"))
          ELSE IF InsufficientFunds(senderAccount, r.amount)
          THEN Answer(clientErrorRes("Insufficient funds"))
          ELSE GoOn("findReceiver", senderAccount, NoDoc)

\* A balance handler that answers the balance the account was opened with.
GetBalanceBeginOpening(r) ==
  IF ~ValidationPasses(r) THEN Answer(clientErrorRes("validation"))
  ELSE LET account == FindOwned(r.accountId, r.userId)
       IN IF ~account.found
          THEN Answer(notFoundRes("Account not found"))
          ELSE Answer(successRes(<<opening[account.id]>>))
\* GetBalance, lines 424-448.
GetBalanceBegin(r) ==
  IF ~ValidationPasses(r) THEN Answer(clientErrorRes("validation"))
  ELSE LET account == FindOwned(r.accountId, r.userId)
       IN IF ~account.found
          THEN Answer(notFoundRes("Account not found"))
          ELSE Answer(successRes(<<account.balance>>))

\* The query with its two date bounds exclusive.
MatchesExclusive(t, r) ==
  /\ t.accountId = r.accountId
  /\ (r.type # "" => t.type = r.type)
  /\ (r.startDate # NoDate => t.createdAt > r.startDate)
  /\ (r.endDate # NoDate => t.createdAt < r.endDate)
\* Transaction.find(query) with the query of lines 380-386.
Matches(t, r) ==
  /\ t.accountId = r.accountId
  /\ (r.type # "" => t.type = r.type)
  /\ (r.startDate # NoDate => t.createdAt >= r.startDate)
  /\ (r.endDate # NoDate => t.createdAt <= r.endDate)
FindTransactions(r) == SelectSeq(txns, LAMBDA t : Matches(t, r))

\* ListTransactions, lines 358-395.  The account's findOne depends on nothing
\* a request changes, so it and Transaction.find are one step.
ListTransactionsBegin(r) ==
  IF ~ValidationPasses(r) THEN Answer(clientErrorRes("validation"))
  ELSE LET account == FindOwned(r.accountId, r.userId)
       IN IF ~account.found
          THEN Answer(notFoundRes("Account not found"))
          ELSE Answer(successRes(FindTransactions(r)))

\* The requests a client may send to a route.
RequestsOf(op) ==
  {[op |-> op, userId |-> u, accountId |-> a, receiverAccountId |-> rid,
    amount |-> amt, type |-> ty, startDate |-> sd, endDate |-> ed] :
     u \in Users, a \in PathIds,
     rid \in (IF op = "transfer" THEN BodyIds ELSE {""}),
     amt \in (IF op \in {"deposit", "withdraw", "transfer"} THEN Amounts ELSE {Num(0)}),
     ty \in (IF op = "transactions" THEN QueryTypes ELSE {""}),
     sd \in (IF op = "transactions" THEN QueryDates ELSE {NoDate}),
     ed \in (IF op = "transactions" THEN QueryDates ELSE {NoDate})}

FreeSlot(p) ==
  /\ pc[p] = "idle"
  /\ \A q \in Procs : q < p => pc[q] # "idle"
  /\ started < MaxRequests

\* Request r is served in the free slot p and its handler does `did` in its
\* first step.
Begin(p, r, did) ==
  /\ started' = started + 1
  /\ UNCHANGED <<balance, txns, opening, userVars>>
  /\ IF did.answered
     THEN /\ res' = [op |-> r.op, fn |-> did.response.fn,
                     message |-> did.response.message, body |-> did.response.body,
                     solo |-> \A o \in Procs \ {p} : pc[o] = "idle"]
          /\ UNCHANGED <<req, pc, sender, receiver, pre, txn0, solo>>
     ELSE /\ pc' = [pc EXCEPT ![p] = did.label]
          /\ req' = [req EXCEPT ![p] = r]
          /\ sender' = [sender EXCEPT ![p] = did.sender]
          /\ receiver' = [receiver EXCEPT ![p] = did.receiver]
          /\ pre' = [pre EXCEPT ![p] = balance]
          /\ txn0' = [txn0 EXCEPT ![p] = Len(txns)]
          /\ solo' = [q \in Procs |-> q = p /\ \A o \in Procs \ {p} : pc[o] = "idle"]
          /\ UNCHANGED res

Deposit(p) ==
  FreeSlot(p) /\ \E r \in RequestsOf("deposit") : Begin(p, r, DepositBegin(r))
Withdraw(p) ==
  FreeSlot(p) /\ \E r \in RequestsOf("withdraw") : Begin(p, r, WithdrawBegin(r))
Transfer(p) ==
  FreeSlot(p) /\ \E r \in RequestsOf("transfer") : Begin(p, r, TransferBegin(r))
GetBalance(p) ==
  FreeSlot(p) /\ \E r \in RequestsOf("balance") : Begin(p, r, GetBalanceBegin(r))
ListTransactions(p) ==
  FreeSlot(p) /\ \E r \in RequestsOf("transactions") :
                   Begin(p, r, ListTransactionsBegin(r))

\* The handler's first findOne rejects: the catch block answers.
FirstFindFails(p) ==
  FreeSlot(p) /\ \E op \in Ops : \E r \in RequestsOf(op) :
                   /\ ValidationPasses(r)
                   /\ Begin(p, r, Answer(serverErrorRes("Internal server error")))

\* The account listing, GET /, lines 62-73: no validation chain, no path
\* parameter; the request is the caller's userId alone.
ListAccountsRequests ==
  {[NoRequest EXCEPT !.op = "accounts", !.userId = u] : u \in Users}
\* Account.find({ userId }) over the documents of S.
RECURSIVE FindAccountsIn(_, _)
FindAccountsIn(S, userId) ==
  IF S = {} THEN <<>>
  ELSE LET a == CHOOSE c \in S : TRUE
       IN (IF Owner[a] = userId
           THEN <<[id |-> a, userId |-> Owner[a], balance |-> balance[a]]>>
           ELSE <<>>)
          \o FindAccountsIn(S \ {a}, userId)
FindAccounts(userId) == FindAccountsIn(Accounts, userId)
ListAccountsBegin(r) == Answer(successRes(FindAccounts(r.userId)))
ListAccounts(p) ==
  FreeSlot(p) /\ \E r \in ListAccountsRequests : Begin(p, r, ListAccountsBegin(r))
\* Account.find rejects: the catch block of lines 69-72 answers.
ListAccountsFails(p) ==
  FreeSlot(p) /\ \E r \in ListAccountsRequests :
                   Begin(p, r, Answer(serverErrorRes("Internal server error")))

\* Transfer, lines 269-284: the receiver's findOne reads its balance, then
\* senderAccount.balance -= amount and receiverAccount.balance += amount.
TransferFindReceiver(p) ==
  /\ pc[p] = "findReceiver"
  /\ sender' = [sender EXCEPT ![p] = MinusAmount(sender[p], req[p].amount)]
  /\ receiver' = [receiver EXCEPT
                    ![p] = PlusAmount(FindById(req[p].receiverAccountId), req[p].amount)]
  /\ Continue(p, "save")
  /\ UNCHANGED <<balance, txns>>

\* document.save(): the modified balance is written over the stored one; a
\* document marked invalid is rejected and nothing is written.  The first of
\* the two is a save whose write is lost.
SaveWritesNothing(doc) == balance
SaveWrites(doc) == [balance EXCEPT ![doc.id] = doc.balance]

\* await account.save() / await senderAccount.save(): lines 126, 201, 285.
SaveAccount(p) ==
  /\ pc[p] = "save"
  /\ IF sender[p].invalid
     THEN /\ Finish(p, serverErrorRes("Internal server error"))
          /\ UNCHANGED balance
     ELSE /\ balance' = SaveWrites(sender[p])
          /\ Continue(p, IF req[p].op = "transfer" THEN "saveReceiver" ELSE "saveTxn")
          /\ UNCHANGED <<sender, receiver>>
  /\ UNCHANGED txns

\* await receiverAccount.save(): line 286.
SaveReceiver(p) ==
  /\ pc[p] = "saveReceiver"
  /\ IF receiver[p].invalid
     THEN /\ Finish(p, serverErrorRes("Internal server error"))
          /\ UNCHANGED balance
     ELSE /\ balance' = SaveWrites(receiver[p])
          /\ Continue(p, "saveTxn")
          /\ UNCHANGED <<sender, receiver>>
  /\ UNCHANGED txns

\* Deposit, lines 128-136: the Transaction is saved and the account returned.
DepositRecord(p) ==
  /\ pc[p] = "saveTxn" /\ req[p].op = "deposit"
  /\ txns' = Append(txns, Transaction(req[p].userId, sender[p].id, "deposit",
                                      req[p].amount))
  /\ Finish(p, successRes(<<sender[p].balance>>))
  /\ UNCHANGED balance

\* Withdraw, lines 203-211.
WithdrawRecord(p) ==
  /\ pc[p] = "saveTxn" /\ req[p].op = "withdraw"
  /\ txns' = Append(txns, Transaction(req[p].userId, sender[p].id, "withdrawal",
                                      req[p].amount))
  /\ Finish(p, successRes(<<sender[p].balance>>))
  /\ UNCHANGED balance

\* Transfer, lines 288-294: the sender's leg, amount: -amount.
TransferRecordSender(p) ==
  /\ pc[p] = "saveTxn" /\ req[p].op = "transfer"
  /\ txns' = Append(txns, Transaction(req[p].userId, sender[p].id, "transfer",
                                      Num(0 - ToNumber(req[p].amount))))
  /\ Continue(p, "saveReceiverTxn")
  /\ UNCHANGED <<balance, sender, receiver>>

\* The receiver's leg recorded under the caller's userId.
TransferRecordReceiverAsCaller(p) ==
  /\ pc[p] = "saveReceiverTxn"
  /\ txns' = Append(txns, Transaction(req[p].userId, receiver[p].id, "transfer",
                                      req[p].amount))
  /\ Finish(p, successRes(<<sender[p].balance, receiver[p].balance>>))
  /\ UNCHANGED balance
\* Transfer, lines 296-304: the receiver's leg and the response.
TransferRecordReceiver(p) ==
  /\ pc[p] = "saveReceiverTxn"
  /\ txns' = Append(txns, Transaction(receiver[p].userId, receiver[p].id, "transfer",
                                      req[p].amount))
  /\ Finish(p, successRes(<<sender[p].balance, receiver[p].balance>>))
  /\ UNCHANGED balance

\* Any store call may reject (the connection is lost, a write fails): the
\* catch block answers serverErrorRes and nothing of the call is written.
AwaitingStore(p) ==
  pc[p] \in {"findReceiver", "save", "saveReceiver", "saveTxn",
             "saveReceiverTxn"}
\* The catch block putting back the balances the request found.
StoreFailsRollsBack(p) ==
  /\ AwaitingStore(p)
  /\ Finish(p, serverErrorRes("Internal server error"))
  /\ balance' = pre[p]
  /\ UNCHANGED txns
\* The catch block deleting the records the request has written.
StoreFailsDeletesRecords(p) ==
  /\ AwaitingStore(p)
  /\ Finish(p, serverErrorRes("Internal server error"))
  /\ txns' = SubSeq(txns, 1, txn0[p])
  /\ UNCHANGED balance
StoreFails(p) ==
  /\ AwaitingStore(p)
  /\ Finish(p, serverErrorRes("Internal server error"))
  /\ UNCHANGED <<balance, txns>>

Next ==
  \E p \in Procs :
    \/ Deposit(p)
    \/ Withdraw(p)
    \/ Transfer(p)
    \/ GetBalance(p)
    \/ ListTransactions(p)
    \/ FirstFindFails(p)
    \/ ListAccounts(p)
    \/ ListAccountsFails(p)
    \/ TransferFindReceiver(p)
    \/ SaveAccount(p)
    \/ SaveReceiver(p)
    \/ DepositRecord(p)
    \/ WithdrawRecord(p)
    \/ TransferRecordSender(p)
    \/ TransferRecordReceiver(p)
    \/ StoreFails(p)

Spec == Init /\ [][Next]_vars

\* ---------------------------------------------------------- the users routes
\* check('email').isEmail()
IsEmail(e) == e.local # "" /\ e.domain # ""
\* check('password').isLength({ min: 6 })
MinPasswordLength == 6
IsLengthMin(pw) == Len(pw) >= MinPasswordLength
\* check('username').notEmpty(), check('password').notEmpty()
NotEmpty(cs) == Len(cs) > 0
UserValidationPasses(r) ==
  IF r.op = "register" THEN IsEmail(r.email) /\ IsLengthMin(r.password)
  ELSE NotEmpty(r.username) /\ NotEmpty(r.password)

\* req.body.email.split('@')[0] + randomSuffix
Username(email, suffix) == <<email.local, suffix>>
\* bcrypt.hash(password, 10): a salted digest; bcrypt.compare(password, hash)
\* digests the password with the hash's salt.
BcryptHash(pw, salt) == [salt |-> salt, digest |-> <<salt, pw>>]
BcryptCompare(pw, h) == h.digest = <<h.salt, pw>>
\* jwt.sign({ userId: user._id }, ...)
JwtSign(user) == [userId |-> user.id]

\* A lookup that finds no document.
FindUserNever(field, value) == NoUser
\* User.findOne({ [field]: value }): the first document that matches.
FindUser(field, value) ==
  LET hits == {i \in 1..Len(users) : users[i][field] = value}
  IN IF hits = {} THEN NoUser
     ELSE users[CHOOSE i \in hits : \A j \in hits : i <= j]

\* util/response's helpers of the users routes.
unauthorizedRes(m) == [fn |-> "unauthorizedRes", message |-> m, body |-> <<>>]
conflictErrorRes(m) == [fn |-> "conflictErrorRes", message |-> m, body |-> <<>>]
createdRes(body) == [fn |-> "createdRes", message |-> "", body |-> body]
\* The names line 7 binds.  Calling a helper that is not among them throws a
\* ReferenceError inside the try block: the catch block answers.
Imported ==
  {"successRes", "unauthorizedRes", "clientErrorRes", "conflictErrorRes",
   "serverErrorRes"}
Respond(response) ==
  IF response.fn \in Imported THEN response
  ELSE serverErrorRes("Internal server error")

UserAnswer(response) ==
  [answered |-> TRUE, response |-> response, label |-> "idle", user |-> NoUser]
UserGoOn(label, user) ==
  [answered |-> FALSE, response |-> [fn |-> "none", message |-> "", body |-> <<>>],
   label |-> label, user |-> user]

\* Register, lines 57-78: validation, the email's findOne, the conflict
\* return, the username and the hashed password in newUser.  bcrypt.hash
\* touches no document, so it belongs to the step of the findOne.
RegisterBegin(r, suffix, salt) ==
  IF ~UserValidationPasses(r) THEN UserAnswer(clientErrorRes("validation"))
  ELSE IF FindUser("email", r.email).found
  THEN UserAnswer(conflictErrorRes("Email already exists"))
  ELSE UserGoOn("saveUser",
                [found |-> TRUE, id |-> 0, username |-> Username(r.email, suffix),
                 email |-> r.email, hashedPassword |-> BcryptHash(r.password, salt)])

\* Login, lines 135-145: validation, the username's findOne, the return when
\* there is no such user.
LoginBegin(r) ==
  IF ~UserValidationPasses(r) THEN UserAnswer(clientErrorRes("validation"))
  ELSE LET user == FindUser("username", r.username)
       IN IF ~user.found
          THEN UserAnswer(unauthorizedRes("Invalid username or password"))
          ELSE UserGoOn("compare", user)

\* A login that compares nothing.
LoginEndAnyPassword(r, user) == successRes(<<JwtSign(user)>>)
\* Login, lines 147-154: bcrypt.compare, the return on a mismatch, the token.
LoginEnd(r, user) ==
  IF ~BcryptCompare(r.password, user.hashedPassword)
  THEN unauthorizedRes("Invalid username or password")
  ELSE successRes(<<JwtSign(user)>>)

UserRequestsOf(op) ==
  {[op |-> op, email |-> e, username |-> n, password |-> pw] :
     e \in (IF op = "register" THEN Emails ELSE {NoEmail}),
     n \in (IF op = "login" THEN LoginNames ELSE {<<>>}),
     pw \in Passwords}

UserFreeSlot(p) ==
  /\ upc[p] = "idle"
  /\ \A q \in Procs : q < p => upc[q] # "idle"
  /\ started < MaxRequests

ledgerVars == <<balance, txns, req, pc, sender, receiver, res, pre, txn0, solo, opening>>

\* The handler answers and returns.
UserFinish(p, response) ==
  /\ upc' = [upc EXCEPT ![p] = "idle"]
  /\ ures' = [op |-> ureq[p].op, fn |-> response.fn, message |-> response.message,
              body |-> response.body]
  /\ ureq' = [ureq EXCEPT ![p] = NoUserRequest]
  /\ uuser' = [uuser EXCEPT ![p] = NoUser]
  /\ UNCHANGED <<started, ledgerVars>>

\* Request r is served in the free slot p and its handler does `did` in its
\* first step.
UserBegin(p, r, did) ==
  /\ started' = started + 1
  /\ UNCHANGED <<users, tokens, ledgerVars>>
  /\ IF did.answered
     THEN /\ ures' = [op |-> r.op, fn |-> did.response.fn,
                      message |-> did.response.message, body |-> did.response.body]
          /\ UNCHANGED <<upc, ureq, uuser>>
     ELSE /\ upc' = [upc EXCEPT ![p] = did.label]
          /\ ureq' = [ureq EXCEPT ![p] = r]
          /\ uuser' = [uuser EXCEPT ![p] = did.user]
          /\ UNCHANGED ures

Register(p) ==
  UserFreeSlot(p) /\ \E r \in UserRequestsOf("register") :
                       \E suffix \in Suffixes : \E salt \in Salts :
                         UserBegin(p, r, RegisterBegin(r, suffix, salt))
Login(p) ==
  UserFreeSlot(p) /\ \E r \in UserRequestsOf("login") : UserBegin(p, r, LoginBegin(r))

\* The handler's findOne rejects: the catch block answers.
UserFindFails(p) ==
  UserFreeSlot(p) /\ \E op \in UserOps : \E r \in UserRequestsOf(op) :
                       /\ UserValidationPasses(r)
                       /\ UserBegin(p, r, UserAnswer(serverErrorRes("Internal server error")))

\* Register, lines 80-86: newUser.save() creates the document, then the
\* handler calls createdRes.
RegisterSave(p) ==
  /\ upc[p] = "saveUser"
  /\ users' = Append(users, [uuser[p] EXCEPT !.id = Len(users) + 1])
  /\ UserFinish(p, Respond(createdRes(<<uuser[p].username>>)))
  /\ UNCHANGED tokens

\* Login, lines 147-158.
LoginCompare(p) ==
  /\ upc[p] = "compare"
  /\ LET response == Respond(LoginEnd(ureq[p], uuser[p]))
     IN /\ tokens' = IF response.fn = "successRes"
                     THEN Append(tokens, JwtSign(uuser[p])) ELSE tokens
        /\ UserFinish(p, response)
  /\ UNCHANGED users

\* newUser.save(), bcrypt.compare or jwt.sign throws: the catch block answers
\* and nothing is written.
UserStoreFails(p) ==
  /\ upc[p] \in {"saveUser", "compare"}
  /\ UserFinish(p, serverErrorRes("Internal server error"))
  /\ UNCHANGED <<users, tokens>>

UsersNext ==
  \E p \in Procs :
    \/ Register(p)
    \/ Login(p)
    \/ UserFindFails(p)
    \/ RegisterSave(p)
    \/ LoginCompare(p)
    \/ UserStoreFails(p)

\* The users routes touch no Account: the accounts start empty here.
UsersInit == Init /\ \A a \in Accounts : balance[a] = 0
UsersSpec == UsersInit /\ [][UsersNext]_vars

\* ------------------------------------------------------------------ claims
\* util/response is not part of the sources: the status each helper sends is
\* taken from the interface contract (400, 404, 500, 200).
StatusOf(fn) ==
  CASE fn = "successRes" -> 200
    [] fn = "clientErrorRes" -> 400
    [] fn = "notFoundRes" -> 404
    [] fn = "serverErrorRes" -> 500
    [] fn = "createdRes" -> 201
    [] fn = "unauthorizedRes" -> 401
    [] fn = "conflictErrorRes" -> 409
    [] OTHER -> 0

Debits(p) == req[p].op \in {"withdraw", "transfer"}
\* The handler in slot p has written its (sender) account document.
Committed(p) == pc[p] \in {"saveReceiver", "saveTxn", "saveReceiverTxn"}
\* The balance the handler in slot p read for its (sender) account.
ReadBalance(p) == sender[p].balance + ToNumber(req[p].amount)
\* Slots p and q hold two Withdraw or Transfer requests against the same
\* account that both passed the funds check on the same balance, which does
\* not cover the two amounts together, and both wrote the account.
StaleRace(p, q) ==
  /\ p # q /\ Debits(p) /\ Debits(q)
  /\ req[p].accountId = req[q].accountId
  /\ Committed(p) /\ Committed(q)
  /\ ReadBalance(p) = ReadBalance(q)
  /\ ToNumber(req[p].amount) + ToNumber(req[q].amount) > ReadBalance(p)

\* C1: in every reachable state, whatever the interleaving of the requests,
\* every account's stored balance is >= 0.
C1_BalanceNonNegative == \A a \in Accounts : balance[a] >= 0
\* Two requests raced on a stale balance, both wrote, and the balance is >= 0.
C1_Witness ==
  \E p, q \in Procs : StaleRace(p, q) /\ balance[req[p].accountId] >= 0

\* C2 as stated: whenever two Withdraw or Transfer requests have both passed
\* the funds check against the same stale balance and both committed, the
\* stored balance of the account is below zero.
C2_RaceGoesNegative ==
  \A p, q \in Procs : StaleRace(p, q) => balance[req[p].accountId] < 0
\* C2 amended: two such requests can both pass the check and both commit, and
\* then the stored balance is the balance of one of the two handlers' own
\* documents (the last save wins, the other debit is lost); it is not below
\* zero.
DocBalances(p, a) ==
  {sender[p].balance} \cup
  (IF receiver[p].found /\ receiver[p].id = a /\ pc[p] \in {"saveTxn", "saveReceiverTxn"}
   THEN {receiver[p].balance} ELSE {})
C2_RaceOverwrites ==
  \A p, q \in Procs :
    StaleRace(p, q) =>
      /\ balance[req[p].accountId] >= 0
      /\ balance[req[p].accountId]
           \in DocBalances(p, req[p].accountId) \cup DocBalances(q, req[p].accountId)
\* Two withdrawals of the whole balance raced: the stored balance is 0, the
\* balance either handler computed, although twice the balance was paid out.
C2_Witness ==
  \E p, q \in Procs :
    /\ StaleRace(p, q)
    /\ req[p].op = "withdraw" /\ req[q].op = "withdraw"
    /\ ReadBalance(p) > 0
    /\ balance[req[p].accountId] = ReadBalance(p) - ToNumber(req[p].amount)

\* The caller owns the account of the request's path.
Owned(r) == r.accountId \in Accounts /\ Owner[r.accountId] = r.userId
\* The amount of the request, as the number it denotes.
X(r) == ToNumber(r.amount)
\* A request can be served: a slot is free.
CanArrive == \E p \in Procs : FreeSlot(p)
\* The step is the first step of a handler, in slot p.
Arrives(p) == started' = started + 1 /\ FreeSlot(p)
\* What the handler of request r does in its first step.
FirstStep(r) ==
  CASE r.op = "deposit" -> DepositBegin(r)
    [] r.op = "withdraw" -> WithdrawBegin(r)
    [] r.op = "transfer" -> TransferBegin(r)
    [] r.op = "balance" -> GetBalanceBegin(r)
    [] r.op = "transactions" -> ListTransactionsBegin(r)
\* A handler that answers from its first step has written nothing and read
\* no document it goes on with.
AnswersWriteNothing ==
  \A p \in Procs :
    (Arrives(p) /\ pc'[p] = "idle")
    => balance' = balance /\ txns' = txns /\ sender' = sender /\ receiver' = receiver
\* The Withdraw requests with a valid amount on an account the caller owns.
OwnedWithdrawals ==
  {r \in RequestsOf("withdraw") : AmountPasses(r.amount) /\ Owned(r)}
\* The step in which the handler in slot p, at its last await, answers.
Completes(p, op, label) ==
  /\ pc[p] = label /\ req[p].op = op
  /\ pc'[p] = "idle" /\ res'.fn = "successRes"
\* The Transaction document the step appends.
Appended == txns'[Len(txns')]

\* C3: a successful Transfer of x from an owned account a to a different
\* existing account b, with no other request overlapping and no store
\* failure, leaves a.balance its previous value minus x and b.balance its
\* previous value plus x, so that the sum of the two is unchanged.
C3_TransferMovesValue ==
  [][\A p \in Procs :
       (/\ Completes(p, "transfer", "saveReceiverTxn")
        /\ solo[p]
        /\ req[p].accountId # req[p].receiverAccountId)
       => LET a == req[p].accountId
              b == req[p].receiverAccountId
          IN /\ balance'[a] = pre[p][a] - X(req[p])
             /\ balance'[b] = pre[p][b] + X(req[p])
             /\ balance'[a] + balance'[b] = pre[p][a] + pre[p][b]]_vars

\* Such a withdrawal is answered by the funds check of the handler's first step.
C4_Refused ==
  CanArrive =>
    \A r \in OwnedWithdrawals :
      balance[r.accountId] < X(r)
      => /\ WithdrawBegin(r) = Answer(clientErrorRes("Insufficient funds"))
         /\ StatusOf(WithdrawBegin(r).response.fn) = 400
\* C4: a Withdraw of x on an owned account whose balance is < x answers the
\* insufficient-funds error (400), leaves every balance as it was and appends
\* no Transaction.
C4_FailedWithdrawal == []C4_Refused /\ [][AnswersWriteNothing]_vars
\* A withdrawal was refused for insufficient funds and the store is as it was.
C4_Witness ==
  /\ res.op = "withdraw" /\ res.message = "Insufficient funds"
  /\ started = 1 /\ balance = opening /\ txns = <<>>
  /\ \A p \in Procs : pc[p] = "idle"

\* A withdrawal the balance covers passes the funds check.
C5_Accepted ==
  CanArrive =>
    \A r \in OwnedWithdrawals :
      balance[r.accountId] >= X(r) => ~WithdrawBegin(r).answered
\* C5: a Withdraw of x on an owned account with balance >= x (x equal to the
\* balance included) is accepted, and when it completes (no other request
\* overlapping) the balance is its previous value minus x and exactly one
\* Transaction was appended: type 'withdrawal', the account's id, the caller's
\* userId and the positive amount x.
C5_SuccessfulWithdrawal ==
  /\ []C5_Accepted
  /\ [][\A p \in Procs :
       (Completes(p, "withdraw", "saveTxn") /\ solo[p])
          => /\ pre[p][req[p].accountId] >= X(req[p])
             /\ balance'[req[p].accountId] = pre[p][req[p].accountId] - X(req[p])
             /\ \A a \in Accounts \ {req[p].accountId} : balance'[a] = pre[p][a]
             /\ Len(txns') = txn0[p] + 1
             /\ Appended.type = "withdrawal"
             /\ Appended.accountId = req[p].accountId
             /\ Appended.userId = req[p].userId
             /\ Appended.amount = X(req[p]) /\ Appended.amount > 0
             /\ res'.body = <<balance'[req[p].accountId]>>]_vars
\* A withdrawal of the whole balance succeeded and left 0.
C5_Witness ==
  /\ res.op = "withdraw" /\ res.fn = "successRes" /\ res.solo
  /\ res.body = <<0>>
  /\ started = 1 /\ Len(txns) = 1 /\ txns[1].type = "withdrawal"
  /\ \E a \in Accounts :
       /\ txns[1].accountId = a
       /\ opening[a] = txns[1].amount /\ opening[a] > 0 /\ balance[a] = 0

\* C6: for every amount x that passes the validation, a Deposit on an owned
\* account that completes (no other request overlapping) leaves the balance
\* its previous value plus x, has appended exactly one Transaction of type
\* 'deposit' and amount x, and returns the updated account.
C6_SuccessfulDeposit ==
  [][\A p \in Procs :
       (Completes(p, "deposit", "saveTxn") /\ solo[p])
       => /\ balance'[req[p].accountId] = pre[p][req[p].accountId] + X(req[p])
          /\ Len(txns') = txn0[p] + 1
          /\ Appended.type = "deposit" /\ Appended.amount = X(req[p])
          /\ res'.body = <<balance'[req[p].accountId]>>]_vars

\* C7: a successful Deposit of x followed, with no other operation in between,
\* by a successful Withdraw of x on the same account leaves the balance equal
\* to its value before the deposit.
C7_RoundTrip ==
  \A a \in Accounts :
    (/\ started = 2 /\ \A p \in Procs : pc[p] = "idle"
     /\ Len(txns) = 2
     /\ txns[1].type = "deposit" /\ txns[1].accountId = a
     /\ txns[2].type = "withdrawal" /\ txns[2].accountId = a
     /\ txns[1].amount = txns[2].amount
     /\ res.op = "withdraw" /\ res.fn = "successRes" /\ res.solo)
    => balance[a] = opening[a]

\* The requests C8 is about: a request that passes the route's validation and
\* whose account names no account of the caller, or, for Transfer, whose
\* receiver names no account.
NotFoundRequests ==
  [op \in Ops \cup {"none"} |->
     {r \in RequestsOf(op) :
        /\ ValidationPasses(r)
        /\ \/ ~Owned(r)
           \/ op = "transfer" /\ r.receiverAccountId \notin Accounts}]
\* Those of them whose ids are all well-formed ObjectIds.
WellFormedNotFoundRequests ==
  [op \in Ops \cup {"none"} |->
     {r \in NotFoundRequests[op] :
        op = "transfer" => IsMongoId(r.receiverAccountId)}]

\* Every such request is answered NotFound by the handler's first step.
C8_NotFound ==
  CanArrive =>
    \A op \in Ops : \A r \in NotFoundRequests[op] :
      /\ FirstStep(r).answered
      /\ FirstStep(r).response.fn = "notFoundRes"
      /\ StatusOf(FirstStep(r).response.fn) = 404
\* C8: Deposit, Withdraw, GetBalance and ListTransactions on an account that
\* does not exist or is not the caller's, and Transfer with such a sender or
\* with a receiver that does not exist, answer NotFound (404), change no
\* balance and append no Transaction.
C8_NotFoundNoMutation == []C8_NotFound /\ [][AnswersWriteNothing]_vars
\* The part of C8 that the handlers keep: with every id a well-formed
\* ObjectId the answer is NotFound (404) and nothing is written.
C8_WellFormedNotFound ==
  CanArrive =>
    \A op \in Ops : \A r \in WellFormedNotFoundRequests[op] :
      /\ FirstStep(r).answered
      /\ FirstStep(r).response.fn = "notFoundRes"
      /\ StatusOf(FirstStep(r).response.fn) = 404
C8_WellFormedNotFoundNoMutation ==
  []C8_WellFormedNotFound /\ [][AnswersWriteNothing]_vars
\* The receiver's id is no ObjectId: the handler answers 500 from its catch
\* block, where a receiver that does not exist is to answer 404.
C8_MalformedReceiver ==
  \E r \in NotFoundRequests["transfer"] :
    /\ Owned(r) /\ r.receiverAccountId = MalformedId
    /\ TransferBegin(r) = Answer(serverErrorRes("Internal server error"))
    /\ StatusOf(TransferBegin(r).response.fn) = 500

\* An amount that is <= 0 or not numeric.
NonNumeric(cs) == \E i \in 1..Len(cs) : ~IsDigit(cs[i]) /\ cs[i] \notin {"+", "-"}
BadAmount(x) ==
  \/ x.t = "num" /\ x.v <= 0
  \/ x.t = "str" /\ NonNumeric(x.s)
BadAmountRequests ==
  [op \in Ops \cup {"none"} |->
     {r \in RequestsOf(op) :
        op \in {"deposit", "withdraw", "transfer"} /\ BadAmount(r.amount)}]

\* Every such request is answered by the validation chain.
C9_Rejected ==
  CanArrive =>
    \A op \in Ops : \A r \in BadAmountRequests[op] :
      /\ FirstStep(r) = Answer(clientErrorRes("validation"))
      /\ StatusOf(FirstStep(r).response.fn) = 400
\* C9: a Deposit, Withdraw or Transfer whose amount is <= 0 or not numeric
\* answers the validation error (400); no account document is read, no
\* balance is written and no Transaction is appended.
C9_InvalidAmountRejected == []C9_Rejected /\ [][AnswersWriteNothing]_vars
\* A transfer was refused by the validation chain and the store is as it was.
C9_Witness ==
  /\ res.op = "transfer" /\ res.fn = "clientErrorRes" /\ res.message = "validation"
  /\ started = 1 /\ balance = opening /\ txns = <<>>

\* C10: every successful Transfer of x has appended two Transactions of type
\* 'transfer': the sender's leg (sender account, caller's userId, amount -x)
\* and after it the receiver's leg (receiver account, the receiver's owner's
\* userId, amount +x); the two amounts sum to zero, and with no other request
\* overlapping these two are all that was appended.
IsLeg(t, accountId, userId, amount) ==
  /\ t.type = "transfer" /\ t.accountId = accountId
  /\ t.userId = userId /\ t.amount = amount
C10_TransferLegs ==
  [][\A p \in Procs :
       Completes(p, "transfer", "saveReceiverTxn")
       => /\ IsLeg(Appended, req[p].receiverAccountId,
                   Owner[req[p].receiverAccountId], X(req[p]))
          /\ \E i \in (txn0[p] + 1)..(Len(txns') - 1) :
               /\ IsLeg(txns'[i], req[p].accountId, req[p].userId, 0 - X(req[p]))
               /\ txns'[i].amount + Appended.amount = 0
          /\ solo[p] => Len(txns') = txn0[p] + 2]_vars
\* A transfer to another user's account succeeded: its two legs are the
\* ledger, under the two owners' userIds.
C10_Witness ==
  /\ res.op = "transfer" /\ res.fn = "successRes"
  /\ Len(txns) = 2
  /\ txns[1].type = "transfer" /\ txns[2].type = "transfer"
  /\ txns[1].amount < 0 /\ txns[2].amount = 0 - txns[1].amount
  /\ txns[1].userId # txns[2].userId
  /\ txns[1].accountId # txns[2].accountId

\* The step in which the handler in slot p, having written its (sender)
\* account, ends without the success response: a later store call rejected.
FailsAfterWrite(p) ==
  /\ Committed(p)
  /\ pc'[p] = "idle" /\ res'.fn # "successRes"
\* The Transactions the handler in slot p has appended when it is at pc[p].
LegsWritten(p) == IF pc[p] = "saveReceiverTxn" THEN 1 ELSE 0
\* C11: when a store write of a Deposit, Withdraw or Transfer fails after a
\* balance write of the same request succeeded, the step that answers leaves
\* every stored balance as written (nothing is rolled back) and appends no
\* Transaction, the handler has returned (the missing records are never
\* written) and the answer is the internal error (500); with no other request
\* overlapping, the sender's stored balance is the changed one and only the
\* records written before the failure exist.
C11_NoRollback ==
  [][\A p \in Procs :
       FailsAfterWrite(p)
       => /\ balance' = balance /\ txns' = txns
          /\ res'.fn = "serverErrorRes" /\ StatusOf(res'.fn) = 500
          /\ req'[p] = NoRequest
          /\ solo[p] =>
               /\ Len(txns') = txn0[p] + LegsWritten(p)
               /\ pc[p] = "saveReceiver" =>
                    balance'[sender[p].id] = pre[p][sender[p].id] - X(req[p])
               /\ (pc[p] = "saveReceiver" /\ sender[p].id # req[p].receiverAccountId) =>
                    balance'[req[p].receiverAccountId] = pre[p][req[p].receiverAccountId]]_vars
\* A transfer failed at the receiver's save: the sender is debited, the
\* receiver is not credited, no Transaction exists and the answer is 500.
C11_Witness ==
  /\ res.op = "transfer" /\ res.fn = "serverErrorRes" /\ res.solo
  /\ started = 1 /\ txns = <<>>
  /\ \E a, b \in Accounts :
       a # b /\ balance[a] < opening[a] /\ balance[b] = opening[b]

\* The valid history requests on an account the caller owns.
OwnedHistoryRequests ==
  {r \in RequestsOf("transactions") : ValidationPasses(r) /\ Owned(r)}
\* The positions of the stored Transactions a history request asks for.
Wanted(r) ==
  {i \in 1..Len(txns) :
     /\ txns[i].accountId = r.accountId
     /\ r.type = "" \/ txns[i].type = r.type
     /\ r.startDate = NoDate \/ r.startDate <= txns[i].createdAt
     /\ r.endDate = NoDate \/ txns[i].createdAt <= r.endDate}
\* What a sequence holds.
Range(seq) == {seq[k] : k \in 1..Len(seq)}
\* The answer to every such request is exactly the records asked for.
C15_Returned ==
  CanArrive =>
    \A r \in OwnedHistoryRequests :
      LET did == ListTransactionsBegin(r)
      IN /\ did.answered /\ did.response.fn = "successRes"
         /\ Range(did.response.body) = {txns[i] : i \in Wanted(r)}
         /\ Len(did.response.body) = Cardinality(Wanted(r))
         /\ \A t \in Range(did.response.body) : t.accountId = r.accountId
\* C15: for an owned account, ListTransactions returns exactly the stored
\* Transactions of that account whose type is the type filter when one is
\* given and whose creation time is >= startDate and <= endDate when given
\* (both inclusive); no record of another account is returned, and every
\* record a history response carries is a stored one.
C15_HistoryFilter ==
  /\ []C15_Returned
  /\ [][(res' # res /\ res'.op = "transactions" /\ res'.fn = "successRes")
        => /\ Range(res'.body) \subseteq Range(txns)
           /\ \A t, u \in Range(res'.body) : t.accountId = u.accountId]_vars
\* Two Transactions of one account are stored and a history request with
\* startDate at the second one's creation time returned the second alone.
C15_Witness ==
  /\ res.op = "transactions" /\ res.fn = "successRes"
  /\ Len(txns) = 2 /\ txns[1].accountId = txns[2].accountId
  /\ txns[1].type = txns[2].type
  /\ res.body = <<txns[2]>>

\* C16: across every step the stored Transactions only grow: every record
\* stored before the step is stored after it, at its place and with all its
\* fields as they were.
C16_AppendOnly ==
  [][/\ Len(txns') >= Len(txns)
     /\ SubSeq(txns', 1, Len(txns)) = txns]_vars
\* A transfer failed after its sender leg was saved: the leg is still stored.
C16_Witness ==
  /\ res.op = "transfer" /\ res.fn = "serverErrorRes"
  /\ started = 1 /\ \A p \in Procs : pc[p] = "idle"
  /\ Len(txns) = 1 /\ txns[1].type = "transfer" /\ txns[1].amount < 0

\* The valid Transfer requests, and what is missing for each.
ValidTransfers == {r \in RequestsOf("transfer") : ValidationPasses(r)}
SenderMissing(r) == ~Owned(r)
ReceiverMissing(r) == r.receiverAccountId \notin Accounts
\* The order of the checks on the requests rs: the sender's, the receiver's,
\* the funds.
Precedence(rs) ==
  CanArrive =>
    \A r \in rs :
      /\ SenderMissing(r)
         => /\ TransferBegin(r) = Answer(notFoundRes("Sender account not found"))
            /\ StatusOf(TransferBegin(r).response.fn) = 404
      /\ (~SenderMissing(r) /\ ReceiverMissing(r))
         => /\ TransferBegin(r) = Answer(notFoundRes("Receiver account not found"))
            /\ StatusOf(TransferBegin(r).response.fn) = 404
      /\ (~SenderMissing(r) /\ ~ReceiverMissing(r) /\ balance[r.accountId] < X(r))
         => /\ TransferBegin(r) = Answer(clientErrorRes("Insufficient funds"))
            /\ StatusOf(TransferBegin(r).response.fn) = 400
      /\ notFoundRes("Sender account not found")
           # notFoundRes("Receiver account not found")
\* C17: Transfer checks in the order sender-not-found, receiver-not-found,
\* insufficient funds: with both accounts missing the answer is
\* sender-not-found; with the receiver missing and the sender's balance below
\* the amount it is receiver-not-found (404), not insufficient funds (400);
\* the two not-found answers carry different messages.
C17_TransferErrorPrecedence == Precedence(ValidTransfers)
\* The part of C17 the handler keeps: the order of the checks when the
\* receiver's id is a well-formed ObjectId.
C17_WellFormedPrecedence ==
  Precedence({r \in ValidTransfers : IsMongoId(r.receiverAccountId)})
\* Both accounts are missing and the receiver's id is no ObjectId: the answer
\* is the internal error, not sender-not-found.
C17_MalformedReceiver ==
  \E r \in ValidTransfers :
    /\ SenderMissing(r) /\ r.receiverAccountId = MalformedId
    /\ TransferBegin(r) = Answer(serverErrorRes("Internal server error"))

\* The step is one of the handler in slot p, past its first.
Mover(p) == pc'[p] # pc[p] /\ pc[p] # "idle"
\* The stored balances are the ones the handler in slot p has computed for
\* its account, and for a transfer its receiver (which, when it is the
\* sender's own account, was written over the sender's).
BalancesWritten(p) ==
  /\ balance # pre[p]
  /\ IF req[p].op = "transfer"
     THEN /\ balance[receiver[p].id] = receiver[p].balance
          /\ sender[p].id # receiver[p].id => balance[sender[p].id] = sender[p].balance
     ELSE balance[sender[p].id] = sender[p].balance
\* The order of the writes of the request in slot p, on one of its steps.
WritesInOrder(p) ==
  /\ balance' # balance
     => /\ pc[p] \in {"save", "saveReceiver"}
        /\ pc[p] = "saveReceiver" => req[p].op = "transfer"
        /\ solo[p] => Len(txns) = txn0[p]
        /\ (solo[p] /\ pc[p] = "saveReceiver")
           => balance[sender[p].id] = sender[p].balance /\ balance # pre[p]
  /\ txns' # txns
     => /\ pc[p] \in {"saveTxn", "saveReceiverTxn"}
        /\ solo[p] => BalancesWritten(p)
        /\ (solo[p] /\ pc[p] = "saveTxn") => Len(txns) = txn0[p]
        /\ pc[p] = "saveReceiverTxn"
           => /\ Appended.amount > 0
              /\ \E i \in (txn0[p] + 1)..Len(txns) :
                   IsLeg(txns[i], sender[p].id, req[p].userId, 0 - X(req[p]))
\* C18: a request writes its Transaction only after its balance write was
\* persisted, and a Transfer writes in the order sender balance, receiver
\* balance, sender leg, receiver leg: on every step that writes, the writes
\* that come before it in this order have happened and those that come after
\* have not.
C18_WriteOrdering ==
  [][/\ (balance' # balance \/ txns' # txns) => \E p \in Procs : Mover(p)
     /\ \A p \in Procs : Mover(p) => WritesInOrder(p)]_vars
\* A transfer to another account has written both balances and its sender
\* leg, and is about to write its receiver leg.
C18_Witness ==
  \E p \in Procs :
    /\ pc[p] = "saveReceiverTxn" /\ solo[p]
    /\ sender[p].id # receiver[p].id
    /\ balance[sender[p].id] = pre[p][sender[p].id] - X(req[p])
    /\ balance[receiver[p].id] # pre[p][receiver[p].id]
    /\ Len(txns) = txn0[p] + 1 /\ txns[Len(txns)].amount = 0 - X(req[p])

\* The signed amount of a Transaction: deposit +amount, withdrawal -amount, a
\* transfer leg as stored.
Signed(t) == IF t.type = "withdrawal" THEN 0 - t.amount ELSE t.amount
\* The sum of the signed amounts of the first n Transactions that are of
\* account a and of a type in types.
RECURSIVE SumOf(_, _, _)
SumOf(a, n, types) ==
  IF n = 0 THEN 0
  ELSE SumOf(a, n - 1, types)
       + (IF txns[n].accountId = a /\ txns[n].type \in types
          THEN Signed(txns[n]) ELSE 0)
Explained(a) == SumOf(a, Len(txns), {"deposit", "withdrawal", "transfer"})
Withdrawn(a) == 0 - SumOf(a, Len(txns), {"withdrawal"})
Deposited(a) == SumOf(a, Len(txns), {"deposit"})
\* The number of stored Transactions that satisfy Keep.
CountOf(Keep(_)) == Cardinality({i \in 1..Len(txns) : Keep(txns[i])})
\* Every request has completed and none met a store failure: no handler is
\* in flight, and every request served has stored the record it writes last
\* (a deposit or withdrawal its one record, a transfer its receiver leg after
\* its sender leg).
AllCompleted ==
  /\ \A p \in Procs : pc[p] = "idle"
  /\ started = CountOf(LAMBDA t : t.type # "transfer")
               + CountOf(LAMBDA t : t.type = "transfer" /\ t.amount > 0)
  /\ CountOf(LAMBDA t : t.type = "transfer" /\ t.amount > 0)
       = CountOf(LAMBDA t : t.type = "transfer" /\ t.amount < 0)
\* C19: for any interleaving of Deposit, Withdraw and Transfer requests with
\* no store failure, once every request has completed each account's balance
\* is its initial balance plus the sum of the signed amounts of its
\* Transactions; with only deposits and withdrawals on it, the withdrawals do
\* not take out more than the account held.
C19_NoLostUpdate ==
  AllCompleted =>
    \A a \in Accounts :
      /\ balance[a] = opening[a] + Explained(a)
      /\ Explained(a) = Deposited(a) - Withdrawn(a)
         => Withdrawn(a) <= opening[a] + Deposited(a)

\* The sum of the balances b of the accounts of S.
RECURSIVE TotalOf(_, _)
TotalOf(b, S) ==
  IF S = {} THEN 0
  ELSE LET a == CHOOSE c \in S : TRUE IN b[a] + TotalOf(b, S \ {a})
\* C20: a Transfer that completes with success, with no store failure and no
\* other request overlapping, leaves the sum of the balances of all accounts
\* what it was when the request arrived, the receiver being another account
\* or the sender's own.
C20_TransferConservesTotal ==
  [][\A p \in Procs :
       (Completes(p, "transfer", "saveReceiverTxn") /\ solo[p])
       => TotalOf(balance', Accounts) = TotalOf(pre[p], Accounts)]_vars

\* The read operations and the requests a client may send to them.
ReadOps == {"balance", "transactions", "accounts"}
ReadRequests ==
  RequestsOf("balance") \cup RequestsOf("transactions") \cup ListAccountsRequests
\* What the handler of a read request does in its first step.
ReadStep(r) ==
  CASE r.op = "balance" -> GetBalanceBegin(r)
    [] r.op = "transactions" -> ListTransactionsBegin(r)
    [] r.op = "accounts" -> ListAccountsBegin(r)
\* The valid GetBalance requests on an account the caller owns.
OwnedBalanceRequests ==
  {r \in RequestsOf("balance") : ValidationPasses(r) /\ Owned(r)}
\* Every read answers from its first step, holding no document afterwards,
\* and GetBalance on an owned account answers the balance now stored.
C21_ReadsAnswer ==
  CanArrive =>
    /\ \A r \in ReadRequests :
         /\ ReadStep(r).answered /\ ReadStep(r).label = "idle"
         /\ ReadStep(r).sender = NoDoc /\ ReadStep(r).receiver = NoDoc
    /\ \A r \in OwnedBalanceRequests :
         GetBalanceBegin(r) = Answer(successRes(<<balance[r.accountId]>>))
\* The step serves a read request, with whatever answer.
Reads(p) == Arrives(p) /\ pc' = pc /\ res'.op \in ReadOps
\* C21: GetBalance, ListTransactions and the account listing, answered with
\* success, a validation error, NotFound or a server error, leave every
\* balance and the stored Transactions as they were and leave no handler in
\* flight; a successful GetBalance returns the balance stored, at the time of
\* the read, for an account the caller owns.
C21_ReadsHaveNoEffect ==
  /\ []C21_ReadsAnswer
  /\ [][\A p \in Procs :
         Reads(p)
         => /\ balance' = balance /\ txns' = txns
            /\ sender' = sender /\ receiver' = receiver /\ req' = req
            /\ (res'.op = "balance" /\ res'.fn = "successRes")
               => \E r \in OwnedBalanceRequests :
                    res'.body = <<balance'[r.accountId]>>]_vars
\* After a deposit changed a balance, GetBalance returned the changed balance
\* and the store is as the deposit left it.
C21_Witness ==
  /\ started = 2 /\ \A p \in Procs : pc[p] = "idle"
  /\ res.op = "balance" /\ res.fn = "successRes"
  /\ Len(txns) = 1 /\ txns[1].type = "deposit" /\ txns[1].accountId = "a1"
  /\ balance["a1"] # opening["a1"]
  /\ res.body = <<balance["a1"]>>

\* ------------------------------------------------------ claims on the users
\* A users request can be served: a slot is free.
UserCanArrive == \E p \in Procs : UserFreeSlot(p)
\* The step is the first step of a users handler, in slot p.
UserArrives(p) == started' = started + 1 /\ UserFreeSlot(p)
\* A users handler that answers from its first step has written nothing.
UserAnswersWriteNothing ==
  \A p \in Procs :
    (UserArrives(p) /\ upc'[p] = "idle") => users' = users /\ tokens' = tokens
\* Some stored User has this email.
EmailStored(e) == \E i \in 1..Len(users) : users[i].email = e

\* C12: a register request with a valid email not yet stored and a password of
\* at least 6 characters creates exactly one User record (with that email) and
\* answers 201 with the generated username.
C12_SuccessfulRegistration ==
  [][\A p \in Procs :
       (upc[p] = "saveUser" /\ upc'[p] = "idle" /\ users' # users)
       => /\ IsEmail(ureq[p].email) /\ IsLengthMin(ureq[p].password)
          /\ Len(users') = Len(users) + 1
          /\ SubSeq(users', 1, Len(users)) = users
          /\ users'[Len(users')].email = ureq[p].email
          /\ ures'.fn = "createdRes" /\ StatusOf(ures'.fn) = 201
          /\ ures'.body = <<users'[Len(users')].username>>]_vars

\* Every valid register request with a stored email is answered Conflict by
\* the handler's first step.
C13_Conflict ==
  UserCanArrive =>
    \A r \in UserRequestsOf("register") :
      (UserValidationPasses(r) /\ EmailStored(r.email))
      => \A suffix \in Suffixes : \A salt \in Salts :
           /\ RegisterBegin(r, suffix, salt)
                = UserAnswer(conflictErrorRes("Email already exists"))
           /\ StatusOf(RegisterBegin(r, suffix, salt).response.fn) = 409
\* C13: a register request whose email is that of a stored User answers
\* Conflict (409) and creates no User: the stored users are unchanged.
C13_DuplicateRegistration == []C13_Conflict /\ [][UserAnswersWriteNothing]_vars
\* A second registration of a stored email was answered Conflict and the one
\* User is all that is stored.
C13_Witness ==
  /\ ures.op = "register" /\ ures.fn = "conflictErrorRes"
  /\ started = 2 /\ Len(users) = 1
  /\ \A p \in Procs : upc[p] = "idle"

\* A login with an unknown username is answered Unauthorized by the handler's
\* first step.
C14_Refused ==
  UserCanArrive =>
    \A r \in UserRequestsOf("login") :
      (UserValidationPasses(r)
       /\ ~\E i \in 1..Len(users) : users[i].username = r.username)
      => /\ LoginBegin(r) = UserAnswer(unauthorizedRes("Invalid username or password"))
         /\ StatusOf(LoginBegin(r).response.fn) = 401
\* The password is the one the stored credential of user u was made from.
IsCredentialOf(pw, u) == u.hashedPassword.digest = <<u.hashedPassword.salt, pw>>
\* A token is signed or returned only by a login whose username is that of a
\* stored User and whose password is that User's; a login whose password is
\* not the one of the User found signs and returns nothing.
C14_TokenStep ==
  /\ (tokens' # tokens \/ (ures' # ures /\ ures'.body # <<>>))
     => \E p \in Procs : \E i \in 1..Len(users) :
          /\ upc[p] = "compare" /\ upc'[p] = "idle"
          /\ users[i].username = ureq[p].username
          /\ users[i].hashedPassword.digest[2] = ureq[p].password
          /\ ures'.fn = "successRes" /\ StatusOf(ures'.fn) = 200
          /\ tokens' = Append(tokens, [userId |-> users[i].id])
          /\ ures'.body = <<[userId |-> users[i].id]>>
  /\ \A p \in Procs :
       (/\ upc[p] = "compare" /\ upc'[p] = "idle"
        /\ uuser[p].hashedPassword.digest[2] # ureq[p].password)
       => /\ ures'.fn \in {"unauthorizedRes", "serverErrorRes"}
          /\ ures'.fn = "unauthorizedRes" => StatusOf(ures'.fn) = 401
          /\ tokens' = tokens /\ ures'.body = <<>>
\* C14: a login whose username is unknown or whose password does not match
\* the stored credential answers Unauthorized (401) and no token is signed or
\* returned; a token is returned only after the lookup and the comparison
\* both succeeded.
C14_FailedLoginNoToken == []C14_Refused /\ [][C14_TokenStep]_vars
\* A login on a stored username with another password was answered
\* Unauthorized and no token exists.
C14_Witness ==
  /\ ures.op = "login" /\ ures.fn = "unauthorizedRes"
  /\ started = 2 /\ Len(users) = 1 /\ tokens = <<>>
  /\ users[1].username = <<"a", 100>>
  /\ \A p \in Procs : upc[p] = "idle"
====
